---- MODULE Spec2Model ----
(***************************************************************************)
(* Fan's DesignCat: the response splitter (parseResponse), the analysis    *)
(* state machine of App, the chat panel (ChatInterface) and the two        *)
(* endpoints of server.js.                                                 *)
(*                                                                         *)
(* Texts are sequences of one-character strings, so that indexOf,          *)
(* substring, trim, replace, the regular expressions and JSON.parse are    *)
(* modelled by what they do on the characters.                             *)
(***************************************************************************)
EXTENDS Integers, Sequences, FiniteSets, TLC

(***************************************************************************)
(* Bounds of the model.                                                    *)
(***************************************************************************)
\* the raw model texts of ParseSpec are concatenations of at most MaxChunks chunks
MaxChunks == 4
\* the client issues at most MaxRequests requests (analyses and chat messages)
MaxRequests == 3
\* handleReset is called at most MaxResets times
MaxResets == 1
\* a client of the endpoints posts at most MaxPosts requests
MaxPosts == 1

(***************************************************************************)
(* String primitives of JavaScript, on sequences of characters.            *)
(***************************************************************************)
\* the characters String.prototype.trim removes (those that occur in the texts)
IsWhitespace(c) == c \in {" ", "\n"}

\* s.startsWith(pat, i) with the 1-based position i
MatchesAt(s, pat, i) ==
  /\ i >= 1
  /\ i + Len(pat) - 1 <= Len(s)
  /\ \A k \in 1..Len(pat) : s[i + k - 1] = pat[k]

\* s.indexOf(pat): the 0-based index of the first occurrence, -1 when there is none
IndexOf(s, pat) ==
  LET hits == {i \in 1..(Len(s) + 1) : MatchesAt(s, pat, i)}
  IN  IF hits = {} THEN -1
      ELSE (CHOOSE i \in hits : \A j \in hits : i <= j) - 1

\* s.substring(from, to) with 0-based indices, to exclusive, both clamped as JavaScript does
Substring(s, from, to) ==
  LET lo == IF from < 0 THEN 0 ELSE IF from > Len(s) THEN Len(s) ELSE from
      hi == IF to < 0 THEN 0 ELSE IF to > Len(s) THEN Len(s) ELSE to
  IN  IF lo <= hi THEN SubSeq(s, lo + 1, hi) ELSE SubSeq(s, hi + 1, lo)

\* s.substring(from)
SubstringFrom(s, from) == Substring(s, from, Len(s))

RECURSIVE TrimStart(_, _)
\* the first position at or after i that holds no whitespace
TrimStart(s, i) == IF i <= Len(s) /\ IsWhitespace(s[i]) THEN TrimStart(s, i + 1) ELSE i

RECURSIVE TrimEnd(_, _)
\* the last position at or before i that holds no whitespace
TrimEnd(s, i) == IF i >= 1 /\ IsWhitespace(s[i]) THEN TrimEnd(s, i - 1) ELSE i

\* s.trim()
Trim(s) == SubSeq(s, TrimStart(s, 1), TrimEnd(s, Len(s)))

RECURSIVE RemoveAllFrom(_, _, _)
\* the characters of s from position i on, with every occurrence of pat found by a
\* left-to-right, non-overlapping scan left out
RemoveAllFrom(s, pat, i) ==
  LET hits == {j \in i..Len(s) : MatchesAt(s, pat, j)}
  IN  IF hits = {} THEN SubSeq(s, i, Len(s))
      ELSE LET j == CHOOSE h \in hits : \A k \in hits : h <= k
           IN  SubSeq(s, i, j - 1) \o RemoveAllFrom(s, pat, j + Len(pat))

\* s.replace(/pat/g, '') for a literal, non-empty pattern
ReplaceAllWithEmpty(s, pat) == RemoveAllFrom(s, pat, 1)

\* s.replace(pat, '') for a string pattern: the first occurrence only
ReplaceFirstWithEmpty(s, pat) ==
  LET at == IndexOf(s, pat)
  IN  IF at = -1 THEN s
      ELSE Substring(s, 0, at) \o SubstringFrom(s, at + Len(pat))

\* s.includes(pat)
Includes(s, pat) == IndexOf(s, pat) # -1

(***************************************************************************)
(* JSON.parse. A JSON value is a record of one shape: t is its type, n the *)
(* number, s the string, m the members of an object (a function from key   *)
(* to value; a repeated key keeps its last value).  The texts hold no      *)
(* backslash, bracket, dot or exponent, so escapes, arrays and fractions   *)
(* are not part of the grammar below.                                      *)
(***************************************************************************)
JNull == [t |-> "null", n |-> 0, s |-> << >>, m |-> << >>]
JNum(k) == [t |-> "num", n |-> k, s |-> << >>, m |-> << >>]
JStr(str) == [t |-> "str", n |-> 0, s |-> str, m |-> << >>]
JObj(members) == [t |-> "obj", n |-> 0, s |-> << >>, m |-> members]

ParseFail == [ok |-> FALSE, val |-> JNull, next |-> 0]
ParseOk(v, nx) == [ok |-> TRUE, val |-> v, next |-> nx]

Digits == {"0", "1", "2", "3", "4", "5", "6", "7", "8", "9"}
DigitValue(c) ==
  CASE c = "0" -> 0 [] c = "1" -> 1 [] c = "2" -> 2 [] c = "3" -> 3 [] c = "4" -> 4
    [] c = "5" -> 5 [] c = "6" -> 6 [] c = "7" -> 7 [] c = "8" -> 8 [] c = "9" -> 9

RECURSIVE SkipWs(_, _)
\* the first position at or after i that holds no JSON whitespace
SkipWs(s, i) == IF i <= Len(s) /\ IsWhitespace(s[i]) THEN SkipWs(s, i + 1) ELSE i

RECURSIVE DigitsEnd(_, _)
\* the first position at or after i that holds no digit
DigitsEnd(s, i) == IF i <= Len(s) /\ s[i] \in Digits THEN DigitsEnd(s, i + 1) ELSE i

RECURSIVE DigitsValue(_, _, _)
DigitsValue(s, i, j) ==
  IF j < i THEN 0 ELSE 10 * DigitsValue(s, i, j - 1) + DigitValue(s[j])

\* number: -? (0 | [1-9][0-9]*)
ParseNumber(s, i) ==
  LET neg == i <= Len(s) /\ s[i] = "-"
      d == IF neg THEN i + 1 ELSE i
  IN  IF d > Len(s) \/ s[d] \notin Digits THEN ParseFail
      ELSE LET e == IF s[d] = "0" THEN d + 1 ELSE DigitsEnd(s, d)
               v == DigitsValue(s, d, e - 1)
           IN  ParseOk(JNum(IF neg THEN 0 - v ELSE v), e)

\* string: " chars ", no control character between the quotes
ParseString(s, i) ==
  IF i > Len(s) \/ s[i] # "\"" THEN ParseFail
  ELSE LET closing == {j \in (i + 1)..Len(s) : s[j] = "\""}
       IN  IF closing = {} THEN ParseFail
           ELSE LET e == CHOOSE j \in closing : \A k \in closing : j <= k
                    body == SubSeq(s, i + 1, e - 1)
                IN  IF \E k \in 1..Len(body) : body[k] = "\n" THEN ParseFail
                    ELSE ParseOk(JStr(body), e + 1)

RECURSIVE ParseValue(_, _), ParseMembers(_, _, _)
\* value: ws (object | string | number | null); next is the position after the value
ParseValue(s, i0) ==
  LET i == SkipWs(s, i0)
  IN  IF i > Len(s) THEN ParseFail
      ELSE IF s[i] = "{" THEN
             LET j == SkipWs(s, i + 1)
             IN  IF j <= Len(s) /\ s[j] = "}" THEN ParseOk(JObj(<< >>), j + 1)
                 ELSE ParseMembers(s, j, << >>)
      ELSE IF s[i] = "\"" THEN ParseString(s, i)
      ELSE IF s[i] = "-" \/ s[i] \in Digits THEN ParseNumber(s, i)
      ELSE IF MatchesAt(s, <<"n", "u", "l", "l">>, i) THEN ParseOk(JNull, i + 4)
      ELSE ParseFail

\* members: string ws ':' value ws (',' ws members | '}'), acc the members read so far
ParseMembers(s, i, acc) ==
  LET key == ParseString(s, i)
  IN  IF ~key.ok THEN ParseFail
      ELSE LET c == SkipWs(s, key.next)
           IN  IF c > Len(s) \/ s[c] # ":" THEN ParseFail
               ELSE LET v == ParseValue(s, c + 1)
                    IN  IF ~v.ok THEN ParseFail
                        ELSE LET e == SkipWs(s, v.next)
                                 now == (key.val.s :> v.val) @@ acc
                             IN  IF e > Len(s) THEN ParseFail
                                 ELSE IF s[e] = "}" THEN ParseOk(JObj(now), e + 1)
                                 ELSE IF s[e] = "," THEN ParseMembers(s, SkipWs(s, e + 1), now)
                                 ELSE ParseFail

\* JSON.parse(s): ok is FALSE where JSON.parse throws a SyntaxError
JSONparse(s) ==
  LET r == ParseValue(s, 1)
  IN  IF r.ok /\ SkipWs(s, r.next) = Len(s) + 1
      THEN [ok |-> TRUE, val |-> r.val]
      ELSE [ok |-> FALSE, val |-> JNull]

(***************************************************************************)
(* The response splitter, src/src/services/geminiService.ts.               *)
(***************************************************************************)
SEPARATOR == <<"-", "-", "-", "S", "E", "P", "A", "R", "A", "T", "O", "R", "-", "-", "-">>
\* the backtick character, which a TLA+ string literal cannot hold
BT == "BACKTICK"
FenceJson == <<BT, BT, BT, "j", "s", "o", "n">>
Fence == <<BT, BT, BT>>

\* a splitter that cuts at the last separator instead of the first
separatorIndex_last(fullText) ==
  LET hits == {i \in 1..(Len(fullText) + 1) : MatchesAt(fullText, SEPARATOR, i)}
  IN  IF hits = {} THEN -1
      ELSE (CHOOSE i \in hits : \A j \in hits : i >= j) - 1

\* fullText.indexOf('---SEPARATOR---')
separatorIndex(fullText) == IndexOf(fullText, SEPARATOR)

\* fullText.substring(0, separatorIndex).trim()
jsonStr(fullText) == Trim(Substring(fullText, 0, separatorIndex(fullText)))

\* jsonStr.replace(/```json/g, '').replace(/```/g, '').trim()
cleanJson(fullText) ==
  Trim(ReplaceAllWithEmpty(ReplaceAllWithEmpty(jsonStr(fullText), FenceJson), Fence))

\* fullText.match(/\{[\s\S]*?\}/): from the first "{" to the first "}" after it
jsonMatch(fullText) ==
  LET opens == {i \in 1..Len(fullText) : fullText[i] = "{"}
  IN  IF opens = {} THEN [found |-> FALSE, text |-> << >>]
      ELSE LET p == CHOOSE i \in opens : \A j \in opens : i <= j
               closes == {i \in (p + 1)..Len(fullText) : fullText[i] = "}"}
           IN  IF closes = {} THEN [found |-> FALSE, text |-> << >>]
               ELSE LET q == CHOOSE i \in closes : \A j \in closes : i <= j
                    IN  [found |-> TRUE, text |-> SubSeq(fullText, p, q)]

\* the separator branch, lines 16-19: markdownText is assigned before JSON.parse
\* can throw, so a parse failure keeps the text after the separator
SeparatorBranch(fullText) ==
  LET markdownText == Trim(SubstringFrom(fullText, separatorIndex(fullText) + 15))
      r == JSONparse(cleanJson(fullText))
  IN  [text |-> markdownText, scores |-> IF r.ok THEN r.val ELSE JNull]

\* a fallback that parses the match but leaves it in the body
FallbackBranch_keepsMatch(fullText) ==
  LET jm == jsonMatch(fullText)
      r == JSONparse(jm.text)
  IN  IF jm.found /\ r.ok THEN [text |-> Trim(fullText), scores |-> r.val]
      ELSE [text |-> fullText, scores |-> JNull]

\* the fallback branch, lines 21-25: JSON.parse throws before markdownText is assigned
FallbackBranch(fullText) ==
  LET jm == jsonMatch(fullText)
      r == JSONparse(jm.text)
  IN  IF ~jm.found THEN [text |-> fullText, scores |-> JNull]
      ELSE IF ~r.ok THEN [text |-> fullText, scores |-> JNull]
      ELSE [text |-> Trim(ReplaceFirstWithEmpty(fullText, jm.text)), scores |-> r.val]

\* parseResponse(fullText): { text: markdownText, scores }, scores null (JNull) when absent
parseResponse(fullText) ==
  IF separatorIndex(fullText) # -1 THEN SeparatorBranch(fullText)
  ELSE FallbackBranch(fullText)

(***************************************************************************)
(* The raw model texts of ParseSpec: concatenations of chunks.             *)
(***************************************************************************)
FlatObject == <<"{", "\"", "a", "\"", ":", "1", "}">>

\* the score block the system instruction shows the model, server.js lines 38-48
SampleReport ==
  << "{", "\n",
     " ", " ", "\"", "o", "v", "e", "r", "a", "l", "l", "S", "c", "o", "r", "e", "\"", ":", " ", "5", "9", ",", "\n",
     " ", " ", "\"", "c", "o", "n", "f", "i", "d", "e", "n", "c", "e", "\"", ":", " ", "\"", "H", "i", "g", "h", "\"", ",", "\n",
     " ", " ", "\"", "m", "e", "t", "r", "i", "c", "s", "\"", ":", " ", "{", "\n",
     " ", " ", " ", " ", "\"", "i", "n", "f", "o", "A", "r", "c", "h", "i", "t", "e", "c", "t", "u", "r", "e", "\"", ":", " ", "6", ",", "\n",
     " ", " ", " ", " ", "\"", "v", "i", "s", "u", "a", "l", "H", "i", "e", "r", "a", "r", "c", "h", "y", "\"", ":", " ", "5", ",", "\n",
     " ", " ", " ", " ", "\"", "l", "a", "y", "o", "u", "t", "S", "p", "a", "c", "i", "n", "g", "\"", ":", " ", "7", ",", "\n",
     " ", " ", " ", " ", "\"", "a", "c", "c", "e", "s", "s", "i", "b", "i", "l", "i", "t", "y", "\"", ":", " ", "4", ",", "\n",
     " ", " ", " ", " ", "\"", "u", "s", "a", "b", "i", "l", "i", "t", "y", "\"", ":", " ", "6", "\n",
     " ", " ", "}", "\n",
     "}" >>

Chunks ==
  { SEPARATOR, FlatObject, SampleReport, FenceJson, Fence,
    <<"{">>, <<"}">>, <<" ">>, <<"x">>, <<"-">>, <<"5">> }

(***************************************************************************)
(* The literal texts of server.js and ChatInterface.tsx, and sample inputs. *)
(***************************************************************************)
\* server.js line 174
HistoryHeader ==
  << "-", "-", "-", " ", "P", "R", "E", "V", "I", "O", "U", "S", " ", "C", "O", "N", "V",
     "E", "R", "S", "A", "T", "I", "O", "N", " ", "H", "I", "S", "T", "O", "R", "Y", " ",
     "-", "-", "-", "\n" >>
\* server.js line 178
HistoryEnd ==
  << "-", "-", "-", " ", "E", "N", "D", " ", "H", "I", "S", "T", "O", "R", "Y", " ", "-",
     "-", "-", "\n", "\n" >>
\* server.js line 179
NewRequestLabel ==
  << "U", "s", "e", "r", "'", "s", " ", "N", "e", "w", " ", "R", "e", "q", "u", "e", "s",
     "t", ":", " " >>
\* server.js line 176
UserLabel ==
  << "U", "s", "e", "r" >>
\* server.js line 176
ModelLabel ==
  << "M", "o", "d", "e", "l" >>
\* server.js line 170
ContextPrefix ==
  << "O", "r", "i", "g", "i", "n", "a", "l", " ", "D", "e", "s", "i", "g", "n", " ", "C",
     "o", "n", "t", "e", "x", "t", ":", " " >>
\* server.js line 169
ContextOpen ==
  << "(", "C", "o", "n", "t", "e", "x", "t", ":", " " >>
\* server.js line 169
ContextNone ==
  << "N", "o", "n", "e" >>
\* server.js line 108
CritiqueIntro ==
  << "P", "l", "e", "a", "s", "e", " ", "c", "r", "i", "t", "i", "q", "u", "e", " ", "t",
     "h", "e", " ", "a", "t", "t", "a", "c", "h", "e", "d", " ", "d", "e", "s", "i", "g",
     "n", ".", "\n", "\n" >>
\* server.js line 109
ThemeLabel ==
  << "*", "*", "C", "u", "r", "r", "e", "n", "t", " ", "U", "I", " ", "T", "h", "e", "m",
     "e", ":", "*", "*", " " >>
\* server.js line 110
ThemeAdvice ==
  << "I", "f", " ", "t", "h", "e", "m", "e", " ", "i", "s", " ", "\"", "n", "i", "g", "h",
     "t", "\"", ",", " ", "a", "s", "s", "u", "m", "e", " ", "a", " ", "d", "a", "r", "k",
     " ", "b", "a", "c", "k", "g", "r", "o", "u", "n", "d", " ", "a", "n", "d", " ", "a",
     "d", "j", "u", "s", "t", " ", "a", "n", "y", " ", "d", "e", "s", "i", "g", "n", " ",
     "f", "e", "e", "d", "b", "a", "c", "k", " ", "f", "o", "r", " ", "d", "a", "r", "k",
     " ", "m", "o", "d", "e", ".", "\n", "\n" >>
\* server.js line 112
FigmaLabel ==
  << "*", "*", "F", "i", "g", "m", "a", " ", "U", "R", "L", " ", "p", "r", "o", "v", "i",
     "d", "e", "d", ":", "*", "*", " " >>
\* server.js line 113
ContextLabel ==
  << "*", "*", "C", "o", "n", "t", "e", "x", "t", ",", " ", "G", "o", "a", "l", "s", " ",
     "&", " ", "C", "o", "n", "s", "t", "r", "a", "i", "n", "t", "s", ":", "*", "*", "\n" >>
\* ChatInterface.tsx line 61
SorryText ==
  << "S", "o", "r", "r", "y", ",", " ", "I", " ", "e", "n", "c", "o", "u", "n", "t", "e",
     "r", "e", "d", " ", "a", "n", " ", "e", "r", "r", "o", "r", " ", "c", "o", "m", "m",
     "u", "n", "i", "c", "a", "t", "i", "n", "g", " ", "w", "i", "t", "h", " ", "t", "h",
     "e", " ", "s", "e", "r", "v", "e", "r", "." >>
\* ChatInterface.tsx line 30: the opening fence of the pattern
HtmlOpen ==
  << BT, BT, BT, "h", "t", "m", "l", "\n" >>
\* ChatInterface.tsx line 30: the closing fence of the pattern
HtmlClose ==
  << "\n", BT, BT, BT >>
\* a data URL as FileReader.readAsDataURL yields it
SomeImage ==
  << "d", "a", "t", "a", ":", "i", "m", "a", "g", "e", "/", "p", "n", "g", ";", "b", "a",
     "s", "e", "6", "4", ",", "Q", "U", "J", "D" >>
\* a free-text context the user typed
SomeContext ==
  << "k", "i", "o", "s", "k" >>
\* a Figma URL the user typed
SomeUrl ==
  << "f", "i", "g", "m", "a", ".", "c", "o", "m", "/", "f" >>
\* a chat reply that carries an html mockup
HtmlReply ==
  << "D", "o", "n", "e", "\n", BT, BT, BT, "h", "t", "m", "l", "\n", "<", "p", ">", "H",
     "i", "<", "/", "p", ">", "\n", BT, BT, BT >>

(***************************************************************************)
(* Values of the user interface and of the wire.                           *)
(***************************************************************************)
\* null, and a value that is present
Null == [some |-> FALSE, v |-> << >>]
Some(x) == [some |-> TRUE, v |-> x]

\* AnalysisState.error: undefined, or the message
NoError == [some |-> FALSE, v |-> ""]
ErrorOf(msg) == [some |-> TRUE, v |-> msg]

\* JavaScript truthiness of a string | null
Truthy(x) == x.some /\ x.v # << >>

\* { userContext: '' }; an absent figmaUrl and '' are both the empty text
EmptyContext == [userContext |-> << >>, figmaUrl |-> << >>]

Day == <<"d", "a", "y">>
Night == <<"n", "i", "g", "h", "t">>

\* the texts the model returns to an analysis
GoodText == FlatObject \o SEPARATOR \o <<"o", "k">>
UnparsableText == <<"x">> \o SEPARATOR \o <<"y">>
EmptyBodyText == FlatObject \o SEPARATOR
ModelTexts == {GoodText, UnparsableText, EmptyBodyText}

\* the texts the user types into the chat box, and the replies of the model
ChatInputs == {<<"A">>, <<" ">>}
ChatReplies == {<<"B">>, HtmlReply}

\* error.message of a failure of the model service
ModelFailure == "model failure"
MissingKey == "API Key is missing on server."

VARIABLES
  fullText,      \* the raw model text (response.text) handed to parseResponse
  nChunks,       \* the number of chunks of it the model has emitted
  parsed,        \* what parseResponse returned
  parseDone,     \* parseResponse has returned
  apiKey,        \* server: process.env.API_KEY is set
  sessions,      \* server: the sessions made by ai.chats.create, in order, with their messages
  net,           \* the requests of the client that have not completed
  nextId,        \* one more than the number of requests issued
  nResets,       \* the number of calls of handleReset
  state,         \* App: the AnalysisState
  inputSection,  \* InputSection: image and context
  isChatOpen,    \* AnalysisResult: isChatOpen
  chat,          \* ChatInterface: messages, input, isLoading, previewCode
  chatMessage,   \* ChatInterface render: the message of messages.map being rendered
  nReplyChunks,  \* the number of chunks its text was written in
  bubble,        \* ChatInterface render: htmlCode and displayText of that message
  userPreference, \* App: the theme the user chose, or null (Auto)
  systemTheme,   \* App: 'light', 'dark' or null, from prefers-color-scheme
  localHour,     \* App: new Date().getHours() at the last environment check
  decision       \* App: the ThemeEngineDecision of the last render

parseVars == <<fullText, nChunks, parsed, parseDone>>
serverVars == <<apiKey, sessions>>
uiVars == <<state, inputSection, isChatOpen, chat>>
renderVars == <<chatMessage, nReplyChunks, bubble>>
themeVars == <<userPreference, systemTheme, localHour, decision>>
vars == <<fullText, nChunks, parsed, parseDone, apiKey, sessions, net, nextId, nResets,
          state, inputSection, isChatOpen, chat, chatMessage, nReplyChunks, bubble,
          userPreference, systemTheme, localHour, decision>>

(***************************************************************************)
(* App, AnalysisResult and InputSection: what is mounted.                  *)
(***************************************************************************)
\* the session data of a result before any chat (types: ChatSessionData)
NoChatData ==
  [some |-> FALSE, history |-> << >>, lastContext |-> EmptyContext, lastImage |-> Null]

\* the session data kept with an analysis result: transcript, original image and context
ChatDataFor(image, context) ==
  [some |-> TRUE, history |-> << >>, lastContext |-> context, lastImage |-> image]

\* useState<AnalysisState>({...}) and the object handleReset sets
InitialState ==
  [status |-> "idle", image |-> Null, context |-> EmptyContext, result |-> Null,
   scores |-> JNull, chatData |-> NoChatData, error |-> NoError]

\* InputSection's useState values
InitialInput == [activeTab |-> "upload", image |-> Null, context |-> EmptyContext]

\* enum TabOption
TabOptions == {"upload", "camera", "url"}

\* no ChatInterface is mounted
NoChat ==
  [mounted |-> FALSE, messages |-> << >>, input |-> << >>, isLoading |-> FALSE,
   previewCode |-> Null]

\* ChatInterface's useState values on mount
NewChat(chatData) ==
  [mounted |-> TRUE, messages |-> chatData.history, input |-> << >>, isLoading |-> FALSE,
   previewCode |-> Null]

\* state.status === 'complete' && state.result && <AnalysisResult .../>
ResultShown(s) == s.status = "complete" /\ Truthy(s.result)

\* state.status === 'idle' && (... <InputSection .../>)
InputShown(s) == s.status = "idle"

\* state.status === 'analyzing' && (...)
ProgressShown(s) == s.status = "analyzing"

\* state.status === 'error' && (... "Try Again")
ErrorShown(s) == s.status = "error"

\* isChatOpen && chatData && <ChatInterface .../>
ChatShown(s, open) == ResultShown(s) /\ open /\ s.chatData.some

\* a component that unmounts loses its state; one that mounts starts from its useState values
RenderInput(s2) ==
  IF s2.status = "idle" /\ state.status = "idle" THEN inputSection ELSE InitialInput

RenderChatOpen(s2) ==
  IF ResultShown(s2) /\ ResultShown(state) THEN isChatOpen ELSE FALSE

RenderChat(s2) ==
  IF ~ChatShown(s2, RenderChatOpen(s2)) THEN NoChat
  ELSE IF chat.mounted THEN chat ELSE NewChat(s2.chatData)

\* the state updates of an unmounted ChatInterface are dropped
Orphan(reqs) == {IF r.kind = "chat" THEN [r EXCEPT !.live = FALSE] ELSE r : r \in reqs}

\* setState(s2) of App, followed by the render
SetAppState(s2, reqs) ==
  /\ state' = s2
  /\ inputSection' = RenderInput(s2)
  /\ isChatOpen' = RenderChatOpen(s2)
  /\ chat' = RenderChat(s2)
  /\ net' = IF chat.mounted /\ ~RenderChat(s2).mounted THEN Orphan(reqs) ELSE reqs

\* fetch(...): a request on its way
Request(id, kind, image, context, theme, history, message) ==
  [id |-> id, kind |-> kind, imageBase64 |-> image, context |-> context,
   themeMode |-> theme, history |-> history, message |-> message,
   live |-> TRUE, st |-> "sent", ok |-> FALSE, text |-> << >>, error |-> ""]

\* a handler that answers a failure of the model by leaving the request to be served again
Reply_retried(r, ok, text, err) ==
  IF ok THEN [r EXCEPT !.st = "replied", !.ok = ok, !.text = text, !.error = err] ELSE r

\* res.json({ text }) or res.status(500).json({ error })
Reply(r, ok, text, err) == [r EXCEPT !.st = "replied", !.ok = ok, !.text = text, !.error = err]

(***************************************************************************)
(* InputSection.                                                           *)
(***************************************************************************)
\* setImage(reader.result) of handleFileChange, handleDrop and the camera
setImage ==
  /\ state.status = "idle"
  /\ ~inputSection.image.some
  /\ inputSection' = [inputSection EXCEPT !.image = Some(SomeImage)]
  /\ UNCHANGED <<parseVars, renderVars, themeVars, serverVars, net, nextId, nResets, state, isChatOpen, chat>>

\* onClick of a tab: setActiveTab(TabOption...)
setActiveTab(t) ==
  /\ state.status = "idle"
  /\ inputSection.activeTab # t
  /\ inputSection' = [inputSection EXCEPT !.activeTab = t]
  /\ UNCHANGED <<parseVars, renderVars, themeVars, serverVars, net, nextId, nResets, state, isChatOpen, chat>>

clearImage ==
  /\ state.status = "idle"
  /\ inputSection.image.some
  /\ inputSection' = [inputSection EXCEPT !.image = Null]
  /\ UNCHANGED <<parseVars, renderVars, themeVars, serverVars, net, nextId, nResets, state, isChatOpen, chat>>

\* setContext({ ...context, userContext }) of the textarea
setUserContext(t) ==
  /\ state.status = "idle"
  /\ inputSection.context.userContext # t
  /\ inputSection' = [inputSection EXCEPT !.context.userContext = t]
  /\ UNCHANGED <<parseVars, renderVars, themeVars, serverVars, net, nextId, nResets, state, isChatOpen, chat>>

\* setContext({ ...context, figmaUrl }) of the URL field
setFigmaUrl(t) ==
  /\ state.status = "idle"
  /\ inputSection.context.figmaUrl # t
  /\ inputSection' = [inputSection EXCEPT !.context.figmaUrl = t]
  /\ UNCHANGED <<parseVars, renderVars, themeVars, serverVars, net, nextId, nResets, state, isChatOpen, chat>>

(***************************************************************************)
(* App.                                                                    *)
(***************************************************************************)
\* handleAnalyze up to its await: setState, then analyzeDesign's fetch('/api/analyze')
handleAnalyze(image, context, theme) ==
  /\ SetAppState([state EXCEPT !.status = "analyzing", !.image = image,
                               !.context = context, !.error = NoError],
                 net \cup {Request(nextId, "analyze", image, context, theme, << >>, << >>)})
  /\ nextId' = nextId + 1
  /\ UNCHANGED <<parseVars, renderVars, themeVars, serverVars, nResets>>

\* a handleSubmit without the test of its first line
handleSubmit_unguarded ==
  /\ state.status = "idle"
  /\ nextId <= MaxRequests
  /\ \E theme \in {Day, Night} :
       handleAnalyze(inputSection.image, inputSection.context, theme)

\* InputSection.handleSubmit: onAnalyze only with an image or a Figma URL; the
\* theme is decision.theme of the render
handleSubmit ==
  /\ state.status = "idle"
  /\ nextId <= MaxRequests
  /\ inputSection.image.some \/ inputSection.context.figmaUrl # << >>
  /\ \E theme \in {Day, Night} :
       handleAnalyze(inputSection.image, inputSection.context, theme)

\* what analyzeDesign settles to: resolved with { text, scores }, or rejected with an Error
Resolved(p) == [resolved |-> TRUE, text |-> p.text, scores |-> p.scores, error |-> ""]
Rejected(msg) == [resolved |-> FALSE, text |-> << >>, scores |-> JNull, error |-> msg]

\* a parseResponse that lets the SyntaxError of JSON.parse escape
ResolvedUnlessNoScore(p) == IF p.scores = JNull THEN Rejected("SyntaxError") ELSE Resolved(p)

\* an analyzeDesign that is rejected when the score block does not parse
analyzeDesign_rethrows(r) ==
  IF r.ok THEN ResolvedUnlessNoScore(parseResponse(r.text)) ELSE Rejected(r.error)

\* analyzeDesign after its await: a response that is not ok throws
\* Error(err.error); one that is ok resolves to parseResponse(data.text)
analyzeDesign(r) ==
  IF r.ok THEN Resolved(parseResponse(r.text)) ELSE Rejected(r.error)

\* the setState of handleAnalyze after its await: try (status 'complete') or
\* catch (status 'error')
AfterAnalysis(r, a) ==
  IF a.resolved
  THEN [state EXCEPT !.status = "complete", !.result = Some(a.text), !.scores = a.scores,
                     !.chatData = ChatDataFor(r.imageBase64, r.context)]
  ELSE [state EXCEPT !.status = "error", !.error = ErrorOf(a.error)]

\* handleAnalyze after its await
AnalyzeResolves(r) ==
  /\ r \in net
  /\ r.kind = "analyze"
  /\ r.st = "replied"
  /\ SetAppState(AfterAnalysis(r, analyzeDesign(r)), net \ {r})
  /\ UNCHANGED <<parseVars, renderVars, themeVars, serverVars, nextId, nResets>>

\* handleReset: the header, "Back to Input", "Critique Again", "Try Again"
handleReset ==
  /\ nResets < MaxResets
  /\ nResets' = nResets + 1
  /\ SetAppState(InitialState, net)
  /\ UNCHANGED <<parseVars, renderVars, themeVars, serverVars, nextId>>

(***************************************************************************)
(* AnalysisResult and ChatInterface.                                       *)
(***************************************************************************)
\* "Edit with AI": setIsChatOpen(true)
OpenChat ==
  /\ ResultShown(state)
  /\ state.chatData.some
  /\ ~isChatOpen
  /\ isChatOpen' = TRUE
  /\ chat' = NewChat(state.chatData)
  /\ UNCHANGED <<parseVars, renderVars, themeVars, serverVars, net, nextId, nResets, state, inputSection>>

\* onClose: setIsChatOpen(false)
CloseChat ==
  /\ chat.mounted
  /\ isChatOpen' = FALSE
  /\ chat' = NoChat
  /\ net' = Orphan(net)
  /\ UNCHANGED <<parseVars, renderVars, themeVars, serverVars, nextId, nResets, state, inputSection>>

\* onChange: setInput(e.target.value)
TypeInput(t) ==
  /\ chat.mounted
  /\ chat.input # t
  /\ chat' = [chat EXCEPT !.input = t]
  /\ UNCHANGED <<parseVars, renderVars, themeVars, serverVars, net, nextId, nResets, state, inputSection, isChatOpen>>

\* an extractHtml whose group runs to the last closing fence of the text
extractHtml_greedy(text) ==
  LET open == IndexOf(text, HtmlOpen)
      from == open + Len(HtmlOpen) + 1
      closes == {j \in from..Len(text) : MatchesAt(text, HtmlClose, j)}
  IN  IF open = -1 \/ closes = {} THEN Null
      ELSE Some(SubSeq(text, from, (CHOOSE j \in closes : \A k \in closes : j >= k) - 1))

\* text.match(/```html\n([\s\S]*?)\n```/): group 1 of the first match, or null
extractHtml(text) ==
  LET open == IndexOf(text, HtmlOpen)
      from == open + Len(HtmlOpen) + 1
      closes == {j \in from..Len(text) : MatchesAt(text, HtmlClose, j)}
  IN  IF open = -1 \/ closes = {} THEN Null
      ELSE Some(SubSeq(text, from, (CHOOSE j \in closes : \A k \in closes : j <= k) - 1))

\* a render that scans the turns of either role
htmlCode_anyRole(m) == extractHtml(m.text)

\* const htmlCode = msg.role === 'model' ? extractHtml(msg.text) : null
htmlCode(m) == IF m.role = "model" THEN extractHtml(m.text) ELSE Null

\* msg.text.replace(/```html\n([\s\S]*?)\n```/, ''): the text without its first match
replaceHtml(text) ==
  LET open == IndexOf(text, HtmlOpen)
      from == open + Len(HtmlOpen) + 1
      closes == {j \in from..Len(text) : MatchesAt(text, HtmlClose, j)}
  IN  IF open = -1 \/ closes = {} THEN text
      ELSE SubSeq(text, 1, open)
             \o SubSeq(text, (CHOOSE j \in closes : \A k \in closes : j <= k) + Len(HtmlClose),
                       Len(text))

\* const displayText = htmlCode ? msg.text.replace(...) : msg.text
displayText(m) == IF Truthy(htmlCode(m)) THEN replaceHtml(m.text) ELSE m.text

\* a handleSend that sends the transcript with the new turn already appended
handleSend_sendsNewHistory ==
  /\ chat.mounted
  /\ Trim(chat.input) # << >>
  /\ ~chat.isLoading
  /\ nextId <= MaxRequests
  /\ chat' = [chat EXCEPT !.input = << >>,
                          !.messages = Append(chat.messages, [role |-> "user", text |-> chat.input]),
                          !.isLoading = TRUE]
  /\ net' = net \cup {Request(nextId, "chat", state.chatData.lastImage,
                              state.chatData.lastContext, << >>,
                              Append(chat.messages, [role |-> "user", text |-> chat.input]),
                              chat.input)}
  /\ nextId' = nextId + 1
  /\ UNCHANGED <<parseVars, renderVars, themeVars, serverVars, nResets, state, inputSection, isChatOpen>>

\* a handleSend without the isLoading test of its first line
handleSend_whileLoading ==
  /\ chat.mounted
  /\ Trim(chat.input) # << >>
  /\ nextId <= MaxRequests
  /\ chat' = [chat EXCEPT !.input = << >>,
                          !.messages = Append(chat.messages, [role |-> "user", text |-> chat.input]),
                          !.isLoading = TRUE]
  /\ net' = net \cup {Request(nextId, "chat", state.chatData.lastImage,
                              state.chatData.lastContext, << >>, chat.messages, chat.input)}
  /\ nextId' = nextId + 1
  /\ UNCHANGED <<parseVars, renderVars, themeVars, serverVars, nResets, state, inputSection, isChatOpen>>

\* handleSend up to its await
handleSend ==
  /\ chat.mounted
  /\ Trim(chat.input) # << >>
  /\ ~chat.isLoading
  /\ nextId <= MaxRequests
  /\ chat' = [chat EXCEPT !.input = << >>,
                          !.messages = Append(chat.messages, [role |-> "user", text |-> chat.input]),
                          !.isLoading = TRUE]
  /\ net' = net \cup {Request(nextId, "chat", state.chatData.lastImage,
                              state.chatData.lastContext, << >>, chat.messages, chat.input)}
  /\ nextId' = nextId + 1
  /\ UNCHANGED <<parseVars, renderVars, themeVars, serverVars, nResets, state, inputSection, isChatOpen>>

\* a handleSend whose catch shows nothing
ChatResolves_silentFailure(r) ==
  /\ r \in net
  /\ r.kind = "chat"
  /\ r.st = "replied"
  /\ net' = net \ {r}
  /\ chat' =
       IF ~r.live THEN chat
       ELSE IF r.ok THEN
         [chat EXCEPT !.messages = Append(@, [role |-> "model", text |-> r.text]),
                      !.previewCode = IF Truthy(extractHtml(r.text)) THEN extractHtml(r.text) ELSE @,
                      !.isLoading = FALSE]
       ELSE [chat EXCEPT !.isLoading = FALSE]
  /\ UNCHANGED <<parseVars, renderVars, themeVars, serverVars, nextId, nResets, state, inputSection, isChatOpen>>

\* a handleSend that resets isLoading at the end of its try only
ChatResolves_noFinally(r) ==
  /\ r \in net
  /\ r.kind = "chat"
  /\ r.st = "replied"
  /\ net' = net \ {r}
  /\ chat' =
       IF ~r.live THEN chat
       ELSE IF r.ok THEN
         [chat EXCEPT !.messages = Append(@, [role |-> "model", text |-> r.text]),
                      !.previewCode = IF Truthy(extractHtml(r.text)) THEN extractHtml(r.text) ELSE @,
                      !.isLoading = FALSE]
       ELSE [chat EXCEPT !.messages = Append(@, [role |-> "model", text |-> SorryText])]
  /\ UNCHANGED <<parseVars, renderVars, themeVars, serverVars, nextId, nResets, state, inputSection, isChatOpen>>

\* handleSend after its await: try, catch and finally
ChatResolves(r) ==
  /\ r \in net
  /\ r.kind = "chat"
  /\ r.st = "replied"
  /\ net' = net \ {r}
  /\ chat' =
       IF ~r.live THEN chat
       ELSE IF r.ok THEN
         [chat EXCEPT !.messages = Append(@, [role |-> "model", text |-> r.text]),
                      !.previewCode = IF Truthy(extractHtml(r.text)) THEN extractHtml(r.text) ELSE @,
                      !.isLoading = FALSE]
       ELSE
         [chat EXCEPT !.messages = Append(@, [role |-> "model", text |-> SorryText]),
                      !.isLoading = FALSE]
  /\ UNCHANGED <<parseVars, renderVars, themeVars, serverVars, nextId, nResets, state, inputSection, isChatOpen>>

\* the "View" button of a message's design card: setPreviewCode(htmlCode)
ViewPreview(i) ==
  /\ chat.mounted
  /\ i \in DOMAIN chat.messages
  /\ Truthy(htmlCode(chat.messages[i]))
  /\ chat' = [chat EXCEPT !.previewCode = htmlCode(chat.messages[i])]
  /\ UNCHANGED <<parseVars, renderVars, themeVars, serverVars, net, nextId, nResets, state, inputSection,
                 isChatOpen>>

\* DesignPreviewModal onClose: setPreviewCode(null)
ClosePreview ==
  /\ chat.mounted
  /\ chat.previewCode.some
  /\ chat' = [chat EXCEPT !.previewCode = Null]
  /\ UNCHANGED <<parseVars, renderVars, themeVars, serverVars, net, nextId, nResets, state, inputSection, isChatOpen>>

(***************************************************************************)
(* server.js.                                                              *)
(***************************************************************************)
\* imageBase64.split(',')[1]
Base64Data(imageBase64) ==
  LET commas == {i \in 1..Len(imageBase64) : imageBase64[i] = ","}
  IN  IF commas = {} THEN << >>
      ELSE LET p == CHOOSE i \in commas : \A j \in commas : i <= j
               rest == {i \in commas : i > p}
               q == IF rest = {} THEN Len(imageBase64) + 1
                    ELSE CHOOSE i \in rest : \A j \in rest : i <= j
           IN  SubSeq(imageBase64, p + 1, q - 1)

\* if (imageBase64) parts.push({ inlineData: { mimeType: 'image/png', data: base64Data } })
ImageParts(imageBase64) ==
  IF Truthy(imageBase64)
  THEN << [kind |-> "inlineData", data |-> Base64Data(imageBase64.v)] >>
  ELSE << >>

TextPart(t) == [kind |-> "text", data |-> t]

\* /api/analyze: promptText
promptText(context, themeMode) ==
  CritiqueIntro \o ThemeLabel \o themeMode \o <<"\n">> \o ThemeAdvice
    \o (IF context.figmaUrl # << >> THEN FigmaLabel \o context.figmaUrl \o <<"\n">> ELSE << >>)
    \o (IF context.userContext # << >> THEN ContextLabel \o context.userContext \o <<"\n">>
        ELSE << >>)

\* an endpoint that puts the text of the prompt before the image
AnalyzeParts_textFirst(r) ==
  << TextPart(promptText(r.context, r.themeMode)) >> \o ImageParts(r.imageBase64)

\* /api/analyze: parts
AnalyzeParts(r) == ImageParts(r.imageBase64) \o << TextPart(promptText(r.context, r.themeMode)) >>

\* /api/chat: contextStr
contextStr(context) ==
  ContextOpen \o (IF context.userContext # << >> THEN context.userContext ELSE ContextNone)
    \o <<")">>

\* msg.role === 'user' ? 'User' : 'Model'
RoleLabel(role) == IF role = "user" THEN UserLabel ELSE ModelLabel

\* a replay that lists the turns last to first
RECURSIVE HistoryLines_reversed(_)
HistoryLines_reversed(history) ==
  IF history = << >> THEN << >>
  ELSE HistoryLines_reversed(Tail(history))
         \o RoleLabel(Head(history).role) \o <<":", " ">> \o Head(history).text \o <<"\n">>

RECURSIVE HistoryLines(_)
\* history.forEach(msg => { historyStr += `${...}: ${msg.text}\n` })
HistoryLines(history) ==
  IF history = << >> THEN << >>
  ELSE RoleLabel(Head(history).role) \o <<":", " ">> \o Head(history).text \o <<"\n">>
         \o HistoryLines(Tail(history))

\* /api/chat: historyStr
historyStr(history, message) ==
  HistoryHeader \o HistoryLines(history) \o HistoryEnd \o NewRequestLabel \o message

\* /api/chat: parts
ChatParts(r) ==
  ImageParts(r.imageBase64)
    \o << TextPart(ContextPrefix \o contextStr(r.context) \o <<"\n", "\n">>),
          TextPart(historyStr(r.history, r.message)) >>

\* the fields of a request body
Body(r) ==
  [imageBase64 |-> r.imageBase64, context |-> r.context, themeMode |-> r.themeMode,
   history |-> r.history, message |-> r.message]

\* ai.chats.create({...}): a new session, with the request it was made for
chatsCreate(sess, r) == Append(sess, [kind |-> r.kind, req |-> Body(r), messages |-> << >>])

\* chat.sendMessage({ message: parts }) on session k
sendMessage(sess, k, parts) == [sess EXCEPT ![k].messages = Append(@, parts)]

\* a handler that goes on with the last session, when there is one
SessionOf_continued(sess) == IF sess = << >> THEN 1 ELSE Len(sess)

\* the session a handler sends its message to: the one it has just created
SessionOf(sess) == Len(sess) + 1

\* a getAIClient that builds the client without looking at the key
getAIClient_unchecked(key) == [ok |-> TRUE, error |-> ""]

\* getAIClient: throws Error("API Key is missing on server.") when API_KEY is not set
getAIClient(key) ==
  IF key THEN [ok |-> TRUE, error |-> ""] ELSE [ok |-> FALSE, error |-> MissingKey]

\* app.post('/api/analyze', ...)
ServeAnalyze(r) ==
  /\ r \in net
  /\ r.kind = "analyze"
  /\ r.st = "sent"
  /\ \/ /\ ~getAIClient(apiKey).ok
        /\ net' = (net \ {r}) \cup {Reply(r, FALSE, << >>, getAIClient(apiKey).error)}
        /\ UNCHANGED sessions
     \/ /\ getAIClient(apiKey).ok
        /\ sessions' = sendMessage(chatsCreate(sessions, r), SessionOf(sessions), AnalyzeParts(r))
        /\ \/ \E t \in ModelTexts : net' = (net \ {r}) \cup {Reply(r, TRUE, t, "")}
           \/ net' = (net \ {r}) \cup {Reply(r, FALSE, << >>, ModelFailure)}
  /\ UNCHANGED <<parseVars, renderVars, themeVars, apiKey, nextId, nResets, uiVars>>

\* app.post('/api/chat', ...)
ServeChat(r) ==
  /\ r \in net
  /\ r.kind = "chat"
  /\ r.st = "sent"
  /\ \/ /\ ~getAIClient(apiKey).ok
        /\ net' = (net \ {r}) \cup {Reply(r, FALSE, << >>, getAIClient(apiKey).error)}
        /\ UNCHANGED sessions
     \/ /\ getAIClient(apiKey).ok
        /\ sessions' = sendMessage(chatsCreate(sessions, r), SessionOf(sessions), ChatParts(r))
        /\ \/ \E t \in ChatReplies : net' = (net \ {r}) \cup {Reply(r, TRUE, t, "")}
           \/ net' = (net \ {r}) \cup {Reply(r, FALSE, << >>, ModelFailure)}
  /\ UNCHANGED <<parseVars, renderVars, themeVars, apiKey, nextId, nResets, uiVars>>

(***************************************************************************)
(* The specifications.                                                     *)
(***************************************************************************)
NoParse == [text |-> << >>, scores |-> JNull]

ParseIdle ==
  /\ fullText = << >>
  /\ nChunks = 0
  /\ parsed = NoParse
  /\ parseDone = FALSE

\* no message is being rendered
NoBubble == [rendered |-> FALSE, htmlCode |-> Null, displayText |-> << >>]

RenderIdle ==
  /\ chatMessage = [role |-> "model", text |-> << >>]
  /\ nReplyChunks = 0
  /\ bubble = NoBubble

\* type SystemTheme = 'light' | 'dark' | null
Light == << "l", "i", "g", "h", "t" >>
Dark == << "d", "a", "r", "k" >>

\* the values of Date.prototype.getHours()
Hours == 0..23

\* a theme engine in which the system theme beats the choice of the user
determineTheme_systemFirst(hour, preference, system) ==
  IF system = Some(Light) THEN
    [theme |-> Day, reason |-> "No user preference, light system theme maps to day mode."]
  ELSE IF system = Some(Dark) THEN
    [theme |-> Night, reason |-> "No user preference, dark system theme maps to night mode."]
  ELSE IF preference = Some(Day) THEN
    [theme |-> Day, reason |-> "User explicitly prefers day mode."]
  ELSE IF preference = Some(Night) THEN
    [theme |-> Night, reason |-> "User explicitly prefers night mode."]
  ELSE IF hour >= 7 /\ hour <= 18 THEN
    [theme |-> Day, reason |-> "No preference or system theme, time is between 7-18."]
  ELSE
    [theme |-> Night, reason |-> "No preference or system theme, time is outside 7-18."]

\* determineTheme(localHour, userPreference, systemTheme)
determineTheme(hour, preference, system) ==
  IF preference = Some(Day) THEN
    [theme |-> Day, reason |-> "User explicitly prefers day mode."]
  ELSE IF preference = Some(Night) THEN
    [theme |-> Night, reason |-> "User explicitly prefers night mode."]
  ELSE IF system = Some(Light) THEN
    [theme |-> Day, reason |-> "No user preference, light system theme maps to day mode."]
  ELSE IF system = Some(Dark) THEN
    [theme |-> Night, reason |-> "No user preference, dark system theme maps to night mode."]
  ELSE IF hour >= 7 /\ hour <= 18 THEN
    [theme |-> Day, reason |-> "No preference or system theme, time is between 7-18."]
  ELSE
    [theme |-> Night, reason |-> "No preference or system theme, time is outside 7-18."]

\* the theme state of an App whose storage and system give no theme, at noon
ThemeIdle ==
  /\ userPreference = Null
  /\ systemTheme = Null
  /\ localHour = 12
  /\ decision = determineTheme(12, Null, Null)

UiIdle ==
  /\ sessions = << >>
  /\ net = {}
  /\ nextId = 1
  /\ nResets = 0
  /\ state = InitialState
  /\ inputSection = InitialInput
  /\ isChatOpen = FALSE
  /\ chat = NoChat

Init ==
  /\ ParseIdle
  /\ apiKey \in BOOLEAN
  /\ UiIdle
  /\ RenderIdle
  /\ ThemeIdle

Next ==
  \/ setImage
  \/ clearImage
  \/ \E t \in {<< >>, SomeContext} : setUserContext(t)
  \/ \E t \in {<< >>, SomeUrl} : setFigmaUrl(t)
  \/ handleSubmit
  \/ \E r \in net : ServeAnalyze(r)
  \/ \E r \in net : AnalyzeResolves(r)
  \/ handleReset
  \/ OpenChat
  \/ CloseChat
  \/ \E t \in ChatInputs : TypeInput(t)
  \/ handleSend
  \/ \E r \in net : ServeChat(r)
  \/ \E r \in net : ChatResolves(r)
  \/ \E i \in 1..(2 * MaxRequests) : ViewPreview(i)
  \/ ClosePreview

Spec == Init /\ [][Next]_vars

(***************************************************************************)
(* The client-side analyzeDesign kept in the repository, which assembles   *)
(* the prompt and calls the model itself.                                  *)
(***************************************************************************)
\* ChatInterface.tsx line 346
ClientThemeAdvice ==
  << "I", "f", " ", "t", "h", "e", "m", "e", " ", "i", "s", " ", "\"", "n", "i", "g", "h",
     "t", "\"", ",", " ", "a", "s", "s", "u", "m", "e", " ", "a", " ", "d", "a", "r", "k",
     " ", "b", "a", "c", "k", "g", "r", "o", "u", "n", "d", " ", "a", "n", "d", " ", "a",
     "d", "j", "u", "s", "t", " ", "a", "n", "y", " ", "d", "e", "s", "i", "g", "n", " ",
     "f", "e", "e", "d", "b", "a", "c", "k", " ", "(", "e", ".", "g", ".", " ", "c", "o",
     "l", "o", "u", "r", " ", "c", "o", "n", "t", "r", "a", "s", "t", ",", " ", "b", "r",
     "i", "g", "h", "t", "n", "e", "s", "s", ")", " ", "f", "o", "r", " ", "d", "a", "r",
     "k", " ", "m", "o", "d", "e", ".", " ", "I", "f", " ", "t", "h", "e", "m", "e", " ",
     "i", "s", " ", "\"", "d", "a", "y", "\"", ",", " ", "a", "s", "s", "u", "m", "e", " ",
     "a", " ", "l", "i", "g", "h", "t", " ", "b", "a", "c", "k", "g", "r", "o", "u", "n",
     "d", " ", "a", "n", "d", " ", "a", "d", "j", "u", "s", "t", " ", "f", "e", "e", "d",
     "b", "a", "c", "k", " ", "f", "o", "r", " ", "l", "i", "g", "h", "t", " ", "m", "o",
     "d", "e", ".", "\n", "\n" >>
\* ChatInterface.tsx line 353
InferNote ==
  << "\n", "(", "N", "o", "t", "e", ":", " ", "N", "o", " ", "s", "p", "e", "c", "i", "f",
     "i", "c", " ", "b", "u", "s", "i", "n", "e", "s", "s", " ", "o", "r", " ", "u", "s",
     "e", "r", " ", "c", "o", "n", "t", "e", "x", "t", " ", "w", "a", "s", " ", "p", "r",
     "o", "v", "i", "d", "e", "d", ".", " ", "P", "l", "e", "a", "s", "e", " ", "i", "n",
     "f", "e", "r", " ", "t", "h", "e", " ", "l", "i", "k", "e", "l", "y", " ", "c", "o",
     "n", "t", "e", "x", "t", " ", "b", "a", "s", "e", "d", " ", "o", "n", " ", "s", "t",
     "a", "n", "d", "a", "r", "d", " ", "U", "I", " ", "p", "a", "t", "t", "e", "r", "n",
     "s", " ", "f", "o", "r", " ", "t", "h", "i", "s", " ", "t", "y", "p", "e", " ", "o",
     "f", " ", "i", "n", "t", "e", "r", "f", "a", "c", "e", ".", ")" >>

\* analyzeDesign (client-side): promptText
clientPromptText(context, themeMode) ==
  CritiqueIntro \o ThemeLabel \o themeMode \o <<"\n">> \o ClientThemeAdvice
    \o (IF context.figmaUrl # << >> THEN FigmaLabel \o context.figmaUrl \o <<"\n">> ELSE << >>)
    \o (IF context.userContext # << >> /\ Len(Trim(context.userContext)) > 0
        THEN ContextLabel \o context.userContext \o <<"\n">>
        ELSE InferNote)

\* analyzeDesign (client-side): parts
ClientAnalyzeParts(r) ==
  ImageParts(r.imageBase64) \o << TextPart(clientPromptText(r.context, r.themeMode)) >>

\* analyzeDesign (client-side) up to chat.sendMessage: without a key it throws
\* before ai.chats.create
analyzeDesignClientSide(image, context, theme) ==
  /\ nextId <= MaxPosts
  /\ nextId' = nextId + 1
  /\ LET r == Request(nextId, "clientAnalyze", image, context, theme, << >>, << >>)
     IN  sessions' = IF apiKey
                     THEN sendMessage(chatsCreate(sessions, r), SessionOf(sessions),
                                      ClientAnalyzeParts(r))
                     ELSE sessions
  /\ UNCHANGED <<parseVars, renderVars, themeVars, apiKey, net, nResets, uiVars>>

(***************************************************************************)
(* The endpoints, applied to requests with any fields.                     *)
(***************************************************************************)
Images == {Null, Some(SomeImage)}
UserContexts == {<< >>, <<" ">>, SomeContext}
FigmaUrls == {<< >>, SomeUrl}
Histories ==
  { << >>, << [role |-> "user", text |-> <<"A">>], [role |-> "model", text |-> <<"B">>] >> }

\* a client posts a request to /api/analyze or /api/chat
Post(kind, image, context, theme, history, message) ==
  /\ nextId <= MaxPosts
  /\ net' = net \cup {Request(nextId, kind, image, context, theme, history, message)}
  /\ nextId' = nextId + 1
  /\ UNCHANGED <<parseVars, renderVars, themeVars, serverVars, nResets, uiVars>>

ApiInit ==
  /\ ParseIdle
  /\ apiKey \in BOOLEAN
  /\ UiIdle
  /\ RenderIdle
  /\ ThemeIdle

ApiNext ==
  \/ \E image \in Images, uc \in UserContexts, url \in FigmaUrls, theme \in {Day, Night} :
       Post("analyze", image, [userContext |-> uc, figmaUrl |-> url], theme, << >>, << >>)
  \/ \E image \in Images, uc \in UserContexts, h \in Histories :
       Post("chat", image, [userContext |-> uc, figmaUrl |-> << >>], << >>, h, <<"C">>)
  \/ \E image \in Images, uc \in UserContexts, url \in FigmaUrls, theme \in {Day, Night} :
       analyzeDesignClientSide(image, [userContext |-> uc, figmaUrl |-> url], theme)
  \/ \E r \in net : ServeAnalyze(r)
  \/ \E r \in net : ServeChat(r)

ApiSpec == ApiInit /\ [][ApiNext]_vars

ParseInit ==
  /\ ParseIdle
  /\ apiKey = TRUE
  /\ UiIdle
  /\ RenderIdle
  /\ ThemeIdle

\* the model service emits the next chunk of its completion
ModelEmits(c) ==
  /\ ~parseDone
  /\ nChunks < MaxChunks
  /\ fullText' = fullText \o c
  /\ nChunks' = nChunks + 1
  /\ UNCHANGED <<parsed, parseDone, renderVars, themeVars, serverVars, net, nextId, nResets, uiVars>>

\* const { text, scores } = parseResponse(data.text)
CallParseResponse ==
  /\ ~parseDone
  /\ parsed' = parseResponse(fullText)
  /\ parseDone' = TRUE
  /\ UNCHANGED <<fullText, nChunks, renderVars, themeVars, serverVars, net, nextId, nResets, uiVars>>

ParseNext ==
  \/ \E c \in Chunks : ModelEmits(c)
  \/ CallParseResponse

ParseSpec == ParseInit /\ [][ParseNext]_vars

(***************************************************************************)
(* The render of one chat message: messages.map in ChatInterface, applied  *)
(* to a turn of either role whose text is written chunk by chunk.          *)
(***************************************************************************)
MaxReplyChunks == 4

\* the pieces a turn is written in: whole html blocks, fence markers, text, line ends
ReplyChunks ==
  { HtmlOpen \o << "<", "p", ">" >> \o HtmlClose,
    HtmlOpen \o << "<", "b", ">" >> \o HtmlClose,
    HtmlOpen, Fence, << "x" >>, << "\n" >> }

RenderInit ==
  /\ ParseIdle
  /\ apiKey = TRUE
  /\ UiIdle
  /\ chatMessage \in {[role |-> r, text |-> << >>] : r \in {"user", "model"}}
  /\ nReplyChunks = 0
  /\ bubble = NoBubble
  /\ ThemeIdle

\* the turn's text grows by one chunk
WriteChunk(c) ==
  /\ ~bubble.rendered
  /\ nReplyChunks < MaxReplyChunks
  /\ chatMessage' = [chatMessage EXCEPT !.text = @ \o c]
  /\ nReplyChunks' = nReplyChunks + 1
  /\ UNCHANGED <<parseVars, themeVars, serverVars, net, nextId, nResets, uiVars, bubble>>

\* the body of messages.map for this message
RenderMessage ==
  /\ ~bubble.rendered
  /\ bubble' = [rendered |-> TRUE, htmlCode |-> htmlCode(chatMessage),
                displayText |-> displayText(chatMessage)]
  /\ UNCHANGED <<parseVars, themeVars, serverVars, net, nextId, nResets, uiVars, chatMessage,
                 nReplyChunks>>

RenderNext ==
  \/ \E c \in ReplyChunks : WriteChunk(c)
  \/ RenderMessage

RenderSpec == RenderInit /\ [][RenderNext]_vars

(***************************************************************************)
(* The theme engine of App: the preference, the environment and the        *)
(* decision recomputed at every render.                                    *)
(***************************************************************************)
UserPreferences == {Null, Some(Day), Some(Night)}
SystemThemes == {Null, Some(Light), Some(Dark)}

\* useState initialisers: localStorage, getSystemTheme(), new Date().getHours()
ThemeInit ==
  /\ ParseIdle
  /\ apiKey = TRUE
  /\ UiIdle
  /\ RenderIdle
  /\ userPreference \in UserPreferences
  /\ systemTheme \in SystemThemes
  /\ localHour \in Hours
  /\ decision = determineTheme(localHour, userPreference, systemTheme)

\* a toggle that knows Auto and night only
toggled_twoState(prev) == IF prev = Null THEN Some(Night) ELSE Null

\* the updater of toggleTheme: Auto (null) -> night -> day -> Auto
toggled(prev) ==
  IF prev = Null THEN Some(Night)
  ELSE IF prev = Some(Night) THEN Some(Day)
  ELSE Null

\* toggleTheme, followed by the render
toggleTheme ==
  /\ userPreference' = toggled(userPreference)
  /\ decision' = determineTheme(localHour, toggled(userPreference), systemTheme)
  /\ UNCHANGED <<parseVars, renderVars, serverVars, net, nextId, nResets, uiVars,
                 systemTheme, localHour>>

\* handleEnvChange: a prefers-color-scheme query changed
handleEnvChange(system, hour) ==
  /\ systemTheme' = system
  /\ localHour' = hour
  /\ decision' = determineTheme(hour, userPreference, system)
  /\ UNCHANGED <<parseVars, renderVars, serverVars, net, nextId, nResets, uiVars,
                 userPreference>>

\* the callback of setInterval(..., 60000): setLocalHour(new Date().getHours())
checkTime(hour) ==
  /\ localHour' = hour
  /\ decision' = determineTheme(hour, userPreference, systemTheme)
  /\ UNCHANGED <<parseVars, renderVars, serverVars, net, nextId, nResets, uiVars,
                 userPreference, systemTheme>>

ThemeNext ==
  \/ toggleTheme
  \/ \E system \in SystemThemes : \E hour \in Hours : handleEnvChange(system, hour)
  \/ \E hour \in Hours : checkTime(hour)

ThemeSpec == ThemeInit /\ [][ThemeNext]_vars

(***************************************************************************)
(* InputSection with its tabs, the submit and the way back to it.          *)
(***************************************************************************)
InputNext ==
  \/ \E t \in TabOptions : setActiveTab(t)
  \/ setImage
  \/ clearImage
  \/ \E t \in {<< >>, SomeContext} : setUserContext(t)
  \/ \E t \in {<< >>, SomeUrl} : setFigmaUrl(t)
  \/ handleSubmit
  \/ \E r \in net : ServeAnalyze(r)
  \/ \E r \in net : AnalyzeResolves(r)
  \/ handleReset

InputSpec == Init /\ [][InputNext]_vars

(***************************************************************************)
(* The way to a chat and the chat itself, with a backend that answers and  *)
(* a response that reaches the client: fetch resolves or rejects.          *)
(***************************************************************************)
SendNext ==
  \/ setImage
  \/ handleSubmit
  \/ \E r \in net : ServeAnalyze(r)
  \/ \E r \in net : AnalyzeResolves(r)
  \/ OpenChat
  \/ CloseChat
  \/ \E t \in ChatInputs : TypeInput(t)
  \/ handleSend
  \/ \E r \in net : ServeChat(r)
  \/ \E r \in net : ChatResolves(r)

SendSpec ==
  /\ Init
  /\ [][SendNext]_vars
  /\ WF_vars(\E r \in net : ServeChat(r))
  /\ WF_vars(\E r \in net : ChatResolves(r))

(***************************************************************************)
(* The response splitter's contract (ParseSpec).                           *)
(***************************************************************************)
Key_overallScore == <<"o", "v", "e", "r", "a", "l", "l", "S", "c", "o", "r", "e">>
Key_metrics == <<"m", "e", "t", "r", "i", "c", "s">>
MetricKeys ==
  { <<"i", "n", "f", "o", "A", "r", "c", "h", "i", "t", "e", "c", "t", "u", "r", "e">>,
    <<"v", "i", "s", "u", "a", "l", "H", "i", "e", "r", "a", "r", "c", "h", "y">>,
    <<"l", "a", "y", "o", "u", "t", "S", "p", "a", "c", "i", "n", "g">>,
    <<"a", "c", "c", "e", "s", "s", "i", "b", "i", "l", "i", "t", "y">>,
    <<"u", "s", "a", "b", "i", "l", "i", "t", "y">> }

\* the separator token stands at position i of the raw text
SeparatorAt(i) ==
  /\ i \in 1..(Len(fullText) - 14)
  /\ SubSeq(fullText, i, i + 14) = SEPARATOR

HasSeparator == \E i \in 1..Len(fullText) : SeparatorAt(i)

FirstSeparator ==
  CHOOSE i \in 1..Len(fullText) : SeparatorAt(i) /\ \A j \in 1..(i - 1) : ~SeparatorAt(j)

TextBeforeSeparator == SubSeq(fullText, 1, FirstSeparator - 1)
TextAfterSeparator == SubSeq(fullText, FirstSeparator + 15, Len(fullText))

\* a score block with its code-fence markers removed
StripFences(block) ==
  Trim(ReplaceAllWithEmpty(ReplaceAllWithEmpty(Trim(block), FenceJson), Fence))

\* what parsing a score block as structured data yields: the value, absent on failure
ScoreOf(block) == LET r == JSONparse(block) IN IF r.ok THEN r.val ELSE JNull

\* positions p..q hold the only brace-delimited JSON object of the raw text
OnlyObjectAt(p, q) ==
  /\ p < q
  /\ fullText[p] = "{"
  /\ fullText[q] = "}"
  /\ JSONparse(SubSeq(fullText, p, q)).ok
  /\ \A i \in 1..Len(fullText) : fullText[i] \in {"{", "}"} => (p <= i /\ i <= q)

C2_FallbackExtractsObject ==
  (parseDone /\ ~HasSeparator) =>
    \A p, q \in 1..Len(fullText) :
      OnlyObjectAt(p, q) =>
        /\ parsed.scores = JSONparse(SubSeq(fullText, p, q)).val
        /\ ~Includes(parsed.text, SubSeq(fullText, p, q))

\* the score block of the raw text cannot be parsed, in either branch
ScoreBlockUnparsable ==
  IF HasSeparator THEN ~JSONparse(StripFences(TextBeforeSeparator)).ok
  ELSE jsonMatch(fullText).found /\ ~JSONparse(jsonMatch(fullText).text).ok

\* C3: for a raw text whose score block cannot be parsed, in the separator branch
\* and in the fallback branch, no score is returned and the body is the entire
\* original raw text.
C3_UnparsableKeepsWholeText ==
  (parseDone /\ ScoreBlockUnparsable) =>
    /\ parsed.scores = JNull
    /\ parsed.text = fullText

\* the raw score block that was parsed
ParsedBlock ==
  IF HasSeparator THEN Trim(TextBeforeSeparator) ELSE jsonMatch(fullText).text

\* the raw text outside the parsed block: after the first separator, or around the match
TextOutsideBlock ==
  IF HasSeparator THEN TextAfterSeparator
  ELSE LET p == CHOOSE i \in 1..Len(fullText) :
                  fullText[i] = "{" /\ \A j \in 1..(i - 1) : fullText[j] # "{"
           q == CHOOSE i \in (p + 1)..Len(fullText) :
                  fullText[i] = "}" /\ \A j \in (p + 1)..(i - 1) : fullText[j] # "}"
       IN  SubSeq(fullText, 1, p - 1) \o SubSeq(fullText, q + 1, Len(fullText))

\* C4 as claimed: whenever a score is returned, the body does not contain the raw
\* score block that was parsed.
C4_BodyNeverContainsBlock ==
  (parseDone /\ parsed.scores # JNull) => ~Includes(parsed.text, ParsedBlock)

\* C4 (amended): whenever a score is returned, the body is the trimmed raw text
\* outside the parsed block (the text after the first separator; in the fallback
\* the text with the matched substring cut out), so the body contains the block's
\* text only where the raw text repeats it outside the parsed occurrence.
C4_BodyIsTextOutsideBlock ==
  (parseDone /\ parsed.scores # JNull) =>
    /\ parsed.text = Trim(TextOutsideBlock)
    /\ Includes(parsed.text, ParsedBlock) => Includes(TextOutsideBlock, ParsedBlock)

\* a fallback extraction: a score from a match with text on both sides of it
C4_Witness ==
  /\ parseDone
  /\ ~HasSeparator
  /\ parsed.scores # JNull
  /\ parsed.text # << >>
  /\ fullText[1] # "{"
  /\ fullText[Len(fullText)] # "}"
  /\ ~Includes(parsed.text, ParsedBlock)

\* v is a ScoreReport: five named metrics, each an integer in 0..10, overallScore in 0..100
IsScoreReport(v) ==
  /\ v.t = "obj"
  /\ Key_overallScore \in DOMAIN v.m
  /\ v.m[Key_overallScore].t = "num"
  /\ v.m[Key_overallScore].n \in 0..100
  /\ Key_metrics \in DOMAIN v.m
  /\ v.m[Key_metrics].t = "obj"
  /\ \A k \in MetricKeys :
       /\ k \in DOMAIN v.m[Key_metrics].m
       /\ v.m[Key_metrics].m[k].t = "num"
       /\ v.m[Key_metrics].m[k].n \in 0..10

\* C9: every score parseResponse returns has all five named metrics, each an
\* integer in [0,10], and an overallScore in [0,100].
C9_ScoresAreScoreReports ==
  (parseDone /\ parsed.scores # JNull) => IsScoreReport(parsed.scores)

(***************************************************************************)
(* Requests, transcript and chat endpoint (claims C5 to C8, C10).          *)
(***************************************************************************)
IsPrefix(s, t) == Len(s) <= Len(t) /\ SubSeq(t, 1, Len(s)) = s

EndsWith(t, suffix) ==
  Len(suffix) <= Len(t) /\ SubSeq(t, Len(t) - Len(suffix) + 1, Len(t)) = suffix

\* the first position at or after from where pat occurs in t, or 0
FindFrom(t, pat, from) ==
  LET hits == {i \in from..(Len(t) - Len(pat) + 1) : SubSeq(t, i, i + Len(pat) - 1) = pat}
  IN  IF hits = {} THEN 0 ELSE CHOOSE i \in hits : \A j \in hits : i <= j

\* the call of request r completes in this step: its response is handed to the caller
Completes(r) == r.st = "replied" /\ \A q \in net' : q.id # r.id

\* C5: at most one model request is outstanding at any time: no analysis or chat
\* request is issued while an earlier one has not completed.
C5_AtMostOneOutstanding == Cardinality(net) <= 1

\* the transcript of the chat of the result on screen: what the chat panel shows,
\* or would show when opened
Transcript == IF chat.mounted THEN chat.messages ELSE state.chatData.history

SameChat ==
  /\ ResultShown(state) /\ ResultShown(state')
  /\ state.chatData.some
  /\ state'.chatData = state.chatData

\* C6: the transcript of a chat changes only by appending at its end: a send appends
\* the user's turn when the request is issued, the completion of the call appends
\* exactly one model turn, and every earlier transcript of the same chat is a prefix
\* of the present one.
C6_TranscriptAppendOnly ==
  [][/\ SameChat => IsPrefix(Transcript, Transcript')
     /\ (SameChat /\ nextId' > nextId) =>
          /\ Len(Transcript') = Len(Transcript) + 1
          /\ Transcript'[Len(Transcript')].role = "user"
     /\ \A r \in net :
          (SameChat /\ r.kind = "chat" /\ Completes(r)) =>
             /\ Len(Transcript') = Len(Transcript) + 1
             /\ Transcript'[Len(Transcript')].role = "model"]_vars

\* the line of one turn, as the claim words it
TurnLine(m) ==
  (IF m.role = "user" THEN <<"U", "s", "e", "r">> ELSE <<"M", "o", "d", "e", "l">>)
    \o <<":", " ">> \o m.text

\* the position after the lines of the turns of history, found one after the other
\* in t from position from on; 0 when one of them is missing
RECURSIVE LinesEnd(_, _, _)
LinesEnd(t, history, from) ==
  IF history = << >> THEN from
  ELSE LET p == FindFrom(t, TurnLine(Head(history)), from)
       IN  IF p = 0 THEN 0
           ELSE LinesEnd(t, Tail(history), p + Len(TurnLine(Head(history))))

ChatSessions == {k \in 1..Len(sessions) : sessions[k].kind = "chat"}

\* the parts of the first message a session received
PartsOf(k) == sessions[k].messages[1]

\* the history text the chat endpoint sent to session k
HistoryTextOf(k) == PartsOf(k)[Len(PartsOf(k))].data

\* C7: the history text built by the chat endpoint lists the turns of the transcript
\* in transcript order, each as 'User: <text>' or 'Model: <text>', and ends with
\* the new message, which comes after all of them.
C7_HistoryTextInOrder ==
  \A k \in ChatSessions :
    sessions[k].messages # << >> =>
      LET t == HistoryTextOf(k)
          e == LinesEnd(t, sessions[k].req.history, 1)
      IN  /\ e > 0
          /\ EndsWith(t, sessions[k].req.message)
          /\ (e - 1) + Len(sessions[k].req.message) <= Len(t)

C7_Witness ==
  \E k \in ChatSessions :
    /\ sessions[k].messages # << >>
    /\ Len(sessions[k].req.history) = 2
    /\ sessions[k].req.history[1].role = "user"
    /\ sessions[k].req.history[2].role = "model"
    /\ sessions[k].req.history[1].text # sessions[k].req.history[2].text

\* the fields of a chat request
ChatFields(k) ==
  <<sessions[k].req.history, sessions[k].req.message, sessions[k].req.imageBase64,
    sessions[k].req.context>>

\* C8: every chat request is served by a session created for it, which receives one
\* message: the image part if an image was sent, then the context text, then the
\* history text with the new message; and two chat requests with equal fields
\* received equal prompts, whatever was served before them.
C8_FreshSessionPerChatRequest ==
  /\ \A k \in 1..Len(sessions) : Len(sessions[k].messages) = 1
  /\ \A k \in ChatSessions :
       Len(sessions[k].messages) = 1 =>
         LET parts == PartsOf(k)
             n == Len(parts)
             img == Truthy(sessions[k].req.imageBase64)
         IN  /\ n = (IF img THEN 3 ELSE 2)
             /\ img => parts[1].kind = "inlineData"
             /\ parts[n - 1].kind = "text"
             /\ IsPrefix(ContextPrefix, parts[n - 1].data)
             /\ parts[n].kind = "text"
             /\ IsPrefix(HistoryHeader, parts[n].data)
             /\ EndsWith(parts[n].data, sessions[k].req.message)
  /\ \A i, j \in ChatSessions :
       ChatFields(i) = ChatFields(j) => sessions[i].messages = sessions[j].messages

C8_Witness ==
  \E i, j \in ChatSessions :
    /\ i < j
    /\ ChatFields(i) = ChatFields(j)
    /\ Truthy(sessions[i].req.imageBase64)
    /\ Len(sessions[j].messages) = 1

ErrorChars(msg) ==
  IF msg = MissingKey THEN
    << "A", "P", "I", " ", "K", "e", "y", " ", "i", "s", " ", "m", "i", "s", "s", "i", "n",
       "g", " ", "o", "n", " ", "s", "e", "r", "v", "e", "r", "." >>
  ELSE
    << "m", "o", "d", "e", "l", " ", "f", "a", "i", "l", "u", "r", "e" >>

\* C11: a failure of a call is surfaced with the message the service provided: a
\* failed analysis sets the status 'error' with that message, and a failed chat
\* send shows a model turn whose text is that message.
C11_FailureCarriesServiceMessage ==
  [][\A r \in net :
       (Completes(r) /\ ~r.ok) =>
          IF r.kind = "analyze"
          THEN state'.status = "error" /\ state'.error = ErrorOf(r.error)
          ELSE r.live =>
                 chat'.messages =
                   Append(chat.messages, [role |-> "model", text |-> ErrorChars(r.error)])]_vars

\* C12: without an API key the analysis and the chat operation fail before any request
\* to the model: no session is created, no message is sent, and every response is the
\* error response with the missing-key message.
C12_MissingKeyFailsBeforeModel ==
  ~apiKey =>
    /\ sessions = << >>
    /\ \A r \in net : r.st = "replied" => (~r.ok /\ r.error = MissingKey)

C12_Witness ==
  /\ ~apiKey
  /\ \E r \in net : r.kind = "chat" /\ r.st = "replied" /\ r.error = MissingKey

\* C13: nothing is retried: a request appears in a step only through one submit or one
\* send, which issues exactly one; a request that was answered is never sent again; and
\* the model is called at most once per request, in answering it, whether the call
\* succeeds or fails.
C13_NoAutomaticRetry ==
  [][/\ nextId' \in {nextId, nextId + 1}
     /\ \A q \in net' : q.id # nextId => \E r \in net : r.id = q.id
     /\ nextId' = nextId => \A q \in net' : q.id # nextId
     /\ nextId' = nextId + 1 =>
          Cardinality({q \in net' : q.id = nextId /\ q.st = "sent"}) = 1
     /\ \A q \in net' : \A r \in net : (r.id = q.id /\ q.st = "sent") => r.st = "sent"
     /\ Len(sessions') <= Len(sessions) + 1
     /\ Len(sessions') = Len(sessions) + 1 =>
          \E r \in net : /\ r.st = "sent"
                         /\ \E q \in net' : q.id = r.id /\ q.st = "replied"]_vars

C13_Witness ==
  /\ state.status = "error"
  /\ state.error = ErrorOf(ModelFailure)
  /\ Len(sessions) = 1
  /\ net = {}
  /\ nextId = 2

\* C14: a failed analysis aborts the action and offers a retry: the state becomes
\* 'error' with no result; from 'error' handleReset leads back to 'idle', and in
\* 'idle' a new analysis with an image or a Figma URL can be submitted.
C14_FailedAnalysisOffersRetry ==
  /\ [][/\ \A r \in net :
             (Completes(r) /\ r.kind = "analyze" /\ ~r.ok) =>
                (state'.status = "error" /\ ~state'.result.some)
        /\ (state.status = "error" /\ nResets' > nResets) => state'.status = "idle"]_vars
  /\ [](( /\ state.status = "idle"
          /\ nextId <= MaxRequests
          /\ inputSection.image.some \/ inputSection.context.figmaUrl # << >> )
        => ENABLED handleSubmit)

(***************************************************************************)
(* The analysis prompt (claims C15 to C17).                                *)
(***************************************************************************)
\* the sessions an analysis opened, on the server or in the browser
AnalysisSessions ==
  {k \in 1..Len(sessions) : sessions[k].kind \in {"analyze", "clientAnalyze"}}

\* the text of the prompt that opened session k: its last part
PromptTextOf(k) == PartsOf(k)[Len(PartsOf(k))].data

InferWord == << "i", "n", "f", "e", "r" >>
DarkMode == << "d", "a", "r", "k", " ", "m", "o", "d", "e" >>
LightMode == << "l", "i", "g", "h", "t", " ", "m", "o", "d", "e" >>
ThemeWord == << "T", "h", "e", "m", "e", ":" >>

\* C15: every analysis prompt assembled with an empty free-text context carries an
\* instruction to infer the context, and every one assembled with a non-empty context
\* carries that context literally, on the server as in the browser.
C15_ContextOrInferInstruction ==
  \A k \in AnalysisSessions :
    /\ sessions[k].req.context.userContext = << >> => Includes(PromptTextOf(k), InferWord)
    /\ sessions[k].req.context.userContext # << >> =>
         Includes(PromptTextOf(k), sessions[k].req.context.userContext)

\* C16: the parts of an analysis prompt are the image part, when an image was supplied,
\* followed by exactly one text part; without an image, exactly one text part.
C16_ImageFirstThenOneText ==
  \A k \in AnalysisSessions :
    /\ Truthy(sessions[k].req.imageBase64) =>
         /\ Len(PartsOf(k)) = 2
         /\ PartsOf(k)[1].kind = "inlineData"
         /\ PartsOf(k)[2].kind = "text"
    /\ ~Truthy(sessions[k].req.imageBase64) =>
         /\ Len(PartsOf(k)) = 1
         /\ PartsOf(k)[1].kind = "text"

C16_Witness ==
  \E k \in AnalysisSessions :
    /\ Truthy(sessions[k].req.imageBase64)
    /\ Len(PartsOf(k)) = 2
    /\ PartsOf(k)[2].data = promptText(sessions[k].req.context, sessions[k].req.themeMode)

\* C17: the text part of every analysis prompt declares the active theme on a line of
\* its own, tells the model to judge for dark mode when the theme is night and for light
\* mode when it is day, and holds the external URL exactly when one was given.
C17_ThemeLineAdviceAndUrl ==
  \A k \in AnalysisSessions :
    /\ Includes(PromptTextOf(k), ThemeWord)
    /\ Includes(PromptTextOf(k), <<" ">> \o sessions[k].req.themeMode \o <<"\n">>)
    /\ sessions[k].req.themeMode = Night => Includes(PromptTextOf(k), DarkMode)
    /\ sessions[k].req.themeMode = Day => Includes(PromptTextOf(k), LightMode)
    /\ sessions[k].req.context.figmaUrl # << >> =>
         Includes(PromptTextOf(k), sessions[k].req.context.figmaUrl)
    /\ sessions[k].req.context.figmaUrl = << >> =>
         \A u \in FigmaUrls \ {<< >>} : ~Includes(PromptTextOf(k), u)

(***************************************************************************)
(* Html mockups in chat replies (claims C18 and C19).  A block opens with  *)
(* the line ```html and closes with the first later line that starts with  *)
(* ```; its content is what stands between those two lines.                *)
(***************************************************************************)
BlockOpens(t) == {i \in 1..Len(t) : MatchesAt(t, HtmlOpen, i)}
FirstOpen(t) == CHOOSE i \in BlockOpens(t) : \A j \in BlockOpens(t) : i <= j
ContentStart(t) == FirstOpen(t) + Len(HtmlOpen)

ClosingFences(t) ==
  {p \in ContentStart(t)..Len(t) :
     MatchesAt(t, Fence, p) /\ (p = ContentStart(t) \/ t[p - 1] = "\n")}
FirstClose(t) == CHOOSE p \in ClosingFences(t) : \A q \in ClosingFences(t) : p <= q

HasHtmlBlock(t) == BlockOpens(t) # {} /\ ClosingFences(t) # {}

\* the lines between the opening and the closing line, without the last line end
BlockContent(t) ==
  IF FirstClose(t) = ContentStart(t) THEN << >>
  ELSE SubSeq(t, ContentStart(t), FirstClose(t) - 2)

BeforeBlock(t) == SubSeq(t, 1, FirstOpen(t) - 1)
AfterBlock(t) == SubSeq(t, FirstClose(t) + Len(Fence), Len(t))

SeveralBlocks(t) == HasHtmlBlock(t) /\ HasHtmlBlock(AfterBlock(t))

\* C18 as stated: for every model reply that contains an html block, the extracted
\* mockup is the block's content and the displayed text is the reply without the block
\* and its fence markers.
C18_EveryHtmlBlockExtracted ==
  (bubble.rendered /\ chatMessage.role = "model" /\ HasHtmlBlock(chatMessage.text)) =>
    /\ bubble.htmlCode = Some(BlockContent(chatMessage.text))
    /\ bubble.displayText = BeforeBlock(chatMessage.text) \o AfterBlock(chatMessage.text)

\* what the render does guarantee: when the content of the block is not empty, the
\* mockup is that content and the displayed text is the reply without the block
NonEmptyHtmlBlockExtracted ==
  ( /\ bubble.rendered
    /\ chatMessage.role = "model"
    /\ HasHtmlBlock(chatMessage.text)
    /\ BlockContent(chatMessage.text) # << >> ) =>
    /\ bubble.htmlCode = Some(BlockContent(chatMessage.text))
    /\ bubble.displayText = BeforeBlock(chatMessage.text) \o AfterBlock(chatMessage.text)

SingleBlockRendered ==
  /\ bubble.rendered
  /\ chatMessage.role = "model"
  /\ HasHtmlBlock(chatMessage.text)
  /\ ~SeveralBlocks(chatMessage.text)
  /\ BeforeBlock(chatMessage.text) = << "x", "\n" >>
  /\ bubble.htmlCode = Some(<< "<", "p", ">" >>)
  /\ bubble.displayText = << "x", "\n", "x" >>

\* C19 as stated: of a model reply with several html blocks only the first is the
\* mockup, and the displayed text is the reply without that first block, the later
\* blocks still in it; a user turn has no mockup and is displayed as it is.
C19_OnlyFirstBlockOfSeveral ==
  bubble.rendered =>
    /\ (chatMessage.role = "model" /\ SeveralBlocks(chatMessage.text)) =>
         /\ bubble.htmlCode = Some(BlockContent(chatMessage.text))
         /\ IsPrefix(BeforeBlock(chatMessage.text), bubble.displayText)
         /\ EndsWith(bubble.displayText, AfterBlock(chatMessage.text))
         /\ Len(bubble.displayText) =
              Len(BeforeBlock(chatMessage.text)) + Len(AfterBlock(chatMessage.text))
    /\ chatMessage.role = "user" =>
         /\ bubble.htmlCode = Null
         /\ bubble.displayText = chatMessage.text

\* what the render does guarantee of several blocks: the same, when the content of
\* the first block is not empty
OnlyFirstNonEmptyBlockOfSeveral ==
  bubble.rendered =>
    /\ ( /\ chatMessage.role = "model"
         /\ SeveralBlocks(chatMessage.text)
         /\ BlockContent(chatMessage.text) # << >> ) =>
         /\ bubble.htmlCode = Some(BlockContent(chatMessage.text))
         /\ IsPrefix(BeforeBlock(chatMessage.text), bubble.displayText)
         /\ EndsWith(bubble.displayText, AfterBlock(chatMessage.text))
         /\ Len(bubble.displayText) =
              Len(BeforeBlock(chatMessage.text)) + Len(AfterBlock(chatMessage.text))
    /\ chatMessage.role = "user" =>
         /\ bubble.htmlCode = Null
         /\ bubble.displayText = chatMessage.text

TwoBlocksRendered ==
  /\ bubble.rendered
  /\ chatMessage.role = "model"
  /\ SeveralBlocks(chatMessage.text)
  /\ bubble.htmlCode = Some(<< "<", "p", ">" >>)
  /\ BlockContent(AfterBlock(chatMessage.text)) = << "<", "b", ">" >>
  /\ HasHtmlBlock(bubble.displayText)
  /\ BlockContent(bubble.displayText) = << "<", "b", ">" >>

(***************************************************************************)
(* The lifetime of a chat session (claim C20).                             *)
(***************************************************************************)
\* C20: the transcript of a chat lives as long as its analysis result and is discarded
\* only by a reset: closing or opening the chat panel under the same result leaves
\* every turn exchanged so far in the transcript, the session data of a result goes
\* away only in a handleReset, and after handleReset the state holds no session, no
\* result, no scores and no image.
C20_TranscriptKeptUntilReset ==
  [][/\ (SameChat /\ isChatOpen' # isChatOpen) => Transcript' = Transcript
     /\ (state.chatData.some /\ ~state'.chatData.some) => nResets' = nResets + 1
     /\ nResets' = nResets + 1 =>
          /\ ~state'.chatData.some
          /\ ~state'.result.some
          /\ state'.scores = JNull
          /\ ~state'.image.some
          /\ ~chat'.mounted]_vars

(***************************************************************************)
(* The theme engine (claims C21 and C29).                                  *)
(***************************************************************************)
\* C21: the decision of the theme engine follows the precedence user choice, system
\* signal, time of day: it is the preference of the user when one is set; otherwise
\* day for a light and night for a dark system theme; otherwise day exactly when the
\* local hour is between 7 and 18, both included, and night at every other hour.
C21_ThemePrecedence ==
  /\ decision.theme \in {Day, Night}
  /\ userPreference # Null => decision.theme = userPreference.v
  /\ (userPreference = Null /\ systemTheme = Some(Light)) => decision.theme = Day
  /\ (userPreference = Null /\ systemTheme = Some(Dark)) => decision.theme = Night
  /\ (userPreference = Null /\ systemTheme = Null) =>
       (decision.theme = Day <=> localHour \in 7..18)

C21_Witness ==
  /\ userPreference = Null
  /\ systemTheme = Null
  /\ localHour = 18
  /\ decision.theme = Day

\* the cycle of the claim: Auto, night, day and Auto again
CycleNext(p) ==
  CASE p = Null -> Some(Night)
    [] p = Some(Night) -> Some(Day)
    [] p = Some(Day) -> Null

\* C29: toggleTheme takes the preference round the cycle Auto -> night -> day -> Auto:
\* every change of the preference is the next step of the cycle, three toggles lead
\* back to the value they started from and one or two do not; and while a preference
\* is set the effective theme is that preference, whatever the system theme and the
\* local hour are.
C29_ToggleCyclesAndPreferenceWins ==
  /\ [][userPreference' # userPreference => userPreference' = CycleNext(userPreference)]_vars
  /\ [](/\ toggled(toggled(toggled(userPreference))) = userPreference
        /\ toggled(userPreference) # userPreference
        /\ toggled(toggled(userPreference)) # userPreference
        /\ userPreference # Null => decision.theme = userPreference.v)

C29_Witness ==
  /\ userPreference = Some(Night)
  /\ systemTheme = Some(Light)
  /\ localHour = 12
  /\ decision.theme = Night

(***************************************************************************)
(* Reset, the chat transcript and the chat send (claims C22 to C27).       *)
(***************************************************************************)
\* C22: handleReset leaves the state 'idle' with no result, scores, image or session,
\* and after a reset the state stays so until the user submits a new analysis: the
\* response of an analysis that was outstanding at the reset changes nothing.
C22_ResetIsFinalUntilSubmit ==
  [][/\ nResets' = nResets + 1 => state' = InitialState
     /\ (nResets > 0 /\ state = InitialState /\ state' # state) =>
          /\ nextId' = nextId + 1
          /\ state'.status = "analyzing"]_vars

\* C23: every model turn of the transcript is text the model service returned for the
\* user turn before it: a model turn is appended only when a chat call completes with
\* a reply, and it is that reply; so every 'Model:' line replayed to the model in a
\* later request is a reply of the model service.
C23_ModelTurnsComeFromTheModel ==
  /\ [][\A r \in net :
          ( /\ r.kind = "chat"
            /\ Completes(r)
            /\ chat.mounted /\ chat'.mounted
            /\ Len(chat'.messages) > Len(chat.messages) ) =>
            /\ r.ok
            /\ chat'.messages = Append(chat.messages, [role |-> "model", text |-> r.text])]_vars
  /\ [](\A k \in ChatSessions :
          \A i \in 1..Len(sessions[k].req.history) :
            sessions[k].req.history[i].role = "model" =>
              sessions[k].req.history[i].text \in ChatReplies)

\* C24: a chat request carries the transcript as it was before the send and the new
\* message apart from it: the history of the request is the transcript before the
\* user's turn was appended, so it never ends with that turn; and in the prompt the
\* end-of-history marker is followed by the new-request label and the message, which
\* is the only place where the label stands.
C24_NewMessageOnceAfterHistory ==
  /\ [][\A q \in net' :
          (q.kind = "chat" /\ q.id = nextId /\ nextId' = nextId + 1) =>
            /\ q.history = chat.messages
            /\ q.message = chat.input
            /\ chat'.messages = Append(q.history, [role |-> "user", text |-> q.message])]_vars
  /\ [](\A k \in ChatSessions :
          /\ \/ sessions[k].req.history = << >>
             \/ sessions[k].req.history[Len(sessions[k].req.history)].role = "model"
          /\ FindFrom(HistoryTextOf(k), HistoryEnd, 1) > 0
          /\ FindFrom(HistoryTextOf(k), NewRequestLabel, 1) =
               FindFrom(HistoryTextOf(k), HistoryEnd, 1) + Len(HistoryEnd)
          /\ SubSeq(HistoryTextOf(k),
                    FindFrom(HistoryTextOf(k), HistoryEnd, 1) + Len(HistoryEnd),
                    Len(HistoryTextOf(k)))
               = NewRequestLabel \o sessions[k].req.message)

C24_Witness ==
  \E k \in ChatSessions :
    /\ Len(sessions[k].req.history) = 2
    /\ sessions[k].req.history[1] = [role |-> "user", text |-> <<"A">>]
    /\ sessions[k].req.message = <<"A">>
    /\ sessions[k].messages # << >>

\* C25: handleSend does nothing while the input is empty or white space only, or
\* while a call is outstanding (isLoading): in such a state no send can take place,
\* and every step that issues a chat request starts from an input that is not blank
\* and a loading flag that is off.
C25_BlankOrLoadingSendDoesNothing ==
  /\ []((chat.mounted /\ (Trim(chat.input) = << >> \/ chat.isLoading)) => ~ENABLED handleSend)
  /\ [][(nextId' = nextId + 1 /\ \E q \in net' : q.id = nextId /\ q.kind = "chat") =>
          /\ Trim(chat.input) # << >>
          /\ ~chat.isLoading]_vars

C25_Witness ==
  /\ chat.mounted
  /\ chat.isLoading
  /\ chat.input = <<"A">>
  /\ \E q \in net : q.kind = "chat" /\ q.st = "sent"
  /\ nextId <= MaxRequests

\* a transcript that alternates user, model, user, ...
Alternates(h) ==
  \A i \in 1..Len(h) : h[i].role = (IF i % 2 = 1 THEN "user" ELSE "model")

\* C26: the transcript of the chat panel alternates user and model turns, and every
\* accepted send makes it two turns longer once its call has completed, with a reply
\* or with a failure: a send appends one turn, the completion of its call appends one
\* turn, no other step changes the transcript, and whenever no call is outstanding
\* the number of turns is even.
C26_TranscriptAlternates ==
  /\ [](chat.mounted =>
          /\ Alternates(chat.messages)
          /\ chat.isLoading <=> Len(chat.messages) % 2 = 1)
  /\ [][(chat.mounted /\ chat'.mounted) =>
          IF \/ nextId' = nextId + 1 /\ \E q \in net' : q.id = nextId /\ q.kind = "chat"
             \/ \E r \in net : r.kind = "chat" /\ r.live /\ Completes(r)
          THEN Len(chat'.messages) = Len(chat.messages) + 1
               /\ IsPrefix(chat.messages, chat'.messages)
          ELSE chat'.messages = chat.messages]_vars

C26_Witness ==
  /\ chat.mounted
  /\ ~chat.isLoading
  /\ Len(chat.messages) = 4
  /\ chat.messages[2].text = SorryText
  /\ chat.messages[4].text \in ChatReplies

\* C27: every accepted send re-enables the send control: when the backend answers
\* and the response reaches the client, a loading flag that is on is off again
\* later, after a reply as well as after a failure.
C27_SendControlComesBack == chat.isLoading ~> ~chat.isLoading

C27_Witness ==
  /\ chat.mounted
  /\ ~chat.isLoading
  /\ Len(chat.messages) = 2
  /\ chat.messages[2].text = SorryText

(***************************************************************************)
(* The views of App and the submit of InputSection (claims C28 and C30).   *)
(***************************************************************************)
\* the views of the main area that the state renders
ViewsShown ==
  {v \in {"input", "progress", "result", "error"} :
     \/ v = "input" /\ InputShown(state)
     \/ v = "progress" /\ ProgressShown(state)
     \/ v = "result" /\ ResultShown(state)
     \/ v = "error" /\ ErrorShown(state)}

\* C28: in every reachable state exactly one of the four views (input form, progress,
\* result, error) is rendered, and whenever the status is 'complete' it is the result
\* view, also when the body the splitter returned is the empty string.
C28_ExactlyOneView ==
  /\ Cardinality(ViewsShown) = 1
  /\ state.status = "complete" => ViewsShown = {"result"}

\* C30: an analysis is requested only when a design input exists: without an image
\* and without a Figma URL no submit can take place, so the image, the context and
\* the tab stay as they are and no request is issued; and every step that issues an
\* analysis request starts from an image or a Figma URL and sends them as they are.
C30_SubmitNeedsDesignInput ==
  /\ []((/\ state.status = "idle"
         /\ ~Truthy(inputSection.image)
         /\ inputSection.context.figmaUrl = << >>) => ~ENABLED handleSubmit)
  /\ [][\A q \in net' :
          (q.kind = "analyze" /\ q.id = nextId /\ nextId' = nextId + 1) =>
            /\ Truthy(inputSection.image) \/ inputSection.context.figmaUrl # << >>
            /\ q.imageBase64 = inputSection.image
            /\ q.context = inputSection.context]_vars

C30_Witness ==
  /\ state.status = "analyzing"
  /\ \E q \in net :
       /\ q.kind = "analyze"
       /\ ~Truthy(q.imageBase64)
       /\ q.context.figmaUrl = SomeUrl

====
